---- MODULE Spec2Model ----
\* A model of swiftclient.client.Connection: the retrying request
\* orchestrator (Connection._retry), the choice of the reset function in
\* Connection.put_object, and the collaborators it calls (the Authenticator,
\* the connection factory, the wrapped resource operation) as
\* nondeterministic outcomes.
\*
\* One top-level call runs at a time. Each step of _retry that ends at a
\* call to a collaborator is one action; an exception raised by a
\* collaborator is handled (the except clauses) in the same action.
\* self.auth_end_time is a timestamp nothing reads and is left out.
\* Connection.post_object is called with a fresh response_dict; the other
\* calls modelled pass none.
\*
\* The full_listing loop of the module-level get_account and get_container
\* is modelled apart (ListingSpec), against a server that pages through a
\* sorted listing.
EXTENDS Integers, Sequences, FiniteSets, TLC

\* ------------------------------------------------------------------ bounds
MaxRetries == 3
MaxBackoff == 3
\* entries the listed account or container holds, and the largest page limit
MaxItems == 5
MaxLimit == 3
MaxLength == 3
MaxStream == 4
MaxReads == 4
MaxSeconds == 2
MaxClock == 3
MaxMade == 4
MaxBody == 3

\* ------------------------------------------------------------- value sets
None == "None"

PreUrl == "preauthurl"
\* a preauthurl whose scheme is neither http nor https
BadUrl == "ftp://preauthurl"
PreToken == "preauthtoken"
AuthUrl == "x-storage-url"
AuthToken == "x-auth-token"

\* HTTP statuses an operation may fail with (every class _retry tells apart).
OpStatuses == {401, 404, 408, 498, 500}
\* HTTP statuses the Authenticator may fail with.
AuthStatuses == {401, 500}

\* which of authurl, user and key the Connection is built with: all of them,
\* all but the key, none (a Connection made from preauthurl/preauthtoken)
CredentialChoices == {<<TRUE, TRUE, TRUE>>, <<TRUE, TRUE, FALSE>>,
                      <<FALSE, FALSE, FALSE>>}

\* kinds of `contents` handed to Connection.put_object:
\*   "str"      a non-empty instance of the interpreter's str type
\*   "fixed"    another non-empty in-memory value (bytes on Python 3,
\*              unicode text on Python 2)
\*   "empty"    None or an empty value
\*   "seekable" a stream object with tell and seek
\*   "stream"   a stream object lacking tell or seek
ContentKinds == {"str", "fixed", "empty", "seekable", "stream"}

Ok == [type |-> "ok", status |-> 200, src |-> "op"]
ClientException(s, from) == [type |-> "ClientException", status |-> s, src |-> from]
SocketError(from) == [type |-> "socket.error", status |-> 0, src |-> from]
SSLError(from) == [type |-> "SSLError", status |-> 0, src |-> from]
ResetError == [type |-> "ClientException", status |-> 0, src |-> "reset"]
NoError == [type |-> "none", status |-> 0, src |-> "none"]
\* kwargs['response_dict'] looked up in a handler while the key is not there
KeyError == [type |-> "KeyError", status |-> 0, src |-> "handler"]

\* A per-attempt response record: the attempt whose `kwargs['response_dict']
\* = {}` made it, and the status store_response put into it (0: nothing was
\* stored, the dict is empty). NoResponseDict: kwargs has no such key.
NoResponseDict == [attempt |-> 0, status |-> 0]
EmptyDict(n) == [attempt |-> n, status |-> 0]
\* store_response, lines 390-397
StoreResponse(rd, s) == [rd EXCEPT !.status = s]

\* the caller's response_dict: absent, or a dict with the list under
\* 'response_dicts' and the flattened status/reason/headers
NoCallerDict == [given |-> FALSE, response_dicts |-> <<>>, flat |-> NoResponseDict]
FreshCallerDict == [given |-> TRUE, response_dicts |-> <<>>, flat |-> NoResponseDict]

\* os_options: the forced or cached storage URL under 'object_storage_url',
\* the cached token under 'auth_token', whether a tenant is named (by
\* the tenant_name argument, by os_options['tenant_name'] or by a user of
\* the form tenant:user: the key 'tenant_name' is in os_options at line 362)
\* and whether os_options['tenant_id'] is set
ForcedUrl == "forced storage url"
CachedToken == "cached token"
OptionChoices == [object_storage_url : {None, ForcedUrl},
                  auth_token : {None, CachedToken},
                  tenant_name : BOOLEAN,
                  tenant_id : BOOLEAN]
\* self.os_options = os_options or {}
NoOptions == [object_storage_url |-> None, auth_token |-> None,
              tenant_name |-> FALSE, tenant_id |-> FALSE]

\* self.http_conn = None: no transport handle is held
NoConn == [url |-> None, failed |-> FALSE]

VARIABLES
    \* Connection fields (Connection.__init__)
    authurl, user, key,         \* TRUE when the credential is supplied
    retries, starting_backoff, max_backoff, retry_on_ratelimit,
    auth_version, os_options,
    stream_len,     \* the end of the stream the caller may upload
    url, token, http_conn, attempts,
    \* the top-level call in progress (locals of _retry / put_object)
    pc, func, contents, reset_func, retried_auth, backoff,
    caller_response_dict,   \* the response_dict popped from kwargs
    pos,        \* the position of the stream
    orig_pos,   \* orig_pos = tell() of Connection.put_object
    response_dict,          \* kwargs['response_dict']
    \* observations of the call in progress
    seen,       \* the outcomes of the attempts made so far
    last,       \* the outcome of the latest attempt
    sleeps,     \* durations handed to sleep(), in order
    calls,      \* invocations of the wrapped operation
    auths,      \* invocations of the Authenticator
    auth_requests,  \* requests it sent to the authentication service
    resets,     \* invocations of the seek reset
    result,     \* how the call ended
    url0, token0, conn0   \* url, token, http_conn when the call began

VARIABLES
    \* a full listing in progress (get_account / get_container, full_listing)
    lfunc,      \* "get_account" or "get_container"
    delimiter,  \* TRUE when get_container is given a delimiter
    items,      \* the server holds the entries named 1..items
    subdirs,    \* the names the server reports as {'subdir': ...} entries
    limit,      \* the limit argument
    filters,    \* which of prefix, end_marker and path the call is given
    marker_arg, \* the marker the caller gave; 0 is a falsy marker
    marker,     \* the marker parameter, reassigned by the loop
    listing,    \* the page got last
    rv,         \* rv[1], the list to be returned
    lpc,        \* position in the function
    resp,       \* the response to the latest listing request
    requests,   \* listing requests issued
    sent,       \* the parameters of each listing request issued
    pages       \* the pages the server returned, in order

listing_vars == <<lfunc, delimiter, items, subdirs, limit, filters, marker_arg,
                  marker, listing, rv, lpc, resp, requests, sent, pages>>

conn_vars == <<authurl, user, key, retries, starting_backoff, max_backoff,
               retry_on_ratelimit, auth_version, os_options, stream_len>>
retry_vars == <<authurl, user, key, retries, starting_backoff, max_backoff,
                retry_on_ratelimit, auth_version, os_options, stream_len,
                pos, orig_pos, url, token, http_conn, attempts,
                pc, func, contents, reset_func, retried_auth, backoff,
                caller_response_dict, response_dict,
                seen, last, sleeps, calls, auths,
                auth_requests, resets, result, url0, token0,
                conn0>>
VARIABLES
    \* one resource operation applied to one response
    operation,  \* the function called
    response,   \* the status and reason of the response it gets
    outcome,    \* what the function did with it
    headers,    \* the dict the caller passed as headers, if any: its keys
    headers0    \* that dict as it was when the function was called

operation_vars == <<operation, response, outcome, headers, headers0>>

VARIABLES
    \* a LengthWrapper and the file-like object it wraps (byte counts)
    length,     \* self._length, the declared length
    remaining,  \* self._remaining
    readable,   \* bytes the wrapped object still holds
    returned,   \* bytes read() has returned so far
    chunk,      \* size of the chunk the latest read() returned
    reads       \* calls of read()

wrapper_vars == <<length, remaining, readable, returned, chunk, reads>>

VARIABLES
    \* one call of generate_temp_url
    args,       \* path, seconds, key, method, absolute
    now,        \* time.time(), counted in half seconds
    temp_url    \* what the call gave

temp_url_vars == <<args, now, temp_url>>

VARIABLES
    \* two threads, each making one top-level call
    shared,     \* TRUE when both call on the same Connection instance
    conns,      \* the Connection instances: retries, attempts, url, token,
                \* http_conn
    threads     \* per thread: its position in _retry, its local
                \* retried_auth, the attempts it made, and whether it handed
                \* an absent URL or token to the operation

thread_vars == <<shared, conns, threads>>

\* the variables of the developments that stand apart from _retry and from
\* the full listings, and all that stand apart from _retry
aux_vars == <<operation_vars, wrapper_vars, temp_url_vars, thread_vars>>
side_vars == <<listing_vars, aux_vars>>
vars == <<retry_vars, listing_vars, aux_vars>>

Min(a, b) == IF a <= b THEN a ELSE b
Max(a, b) == IF a >= b THEN a ELSE b

\* a response: its status and its body, a JSON text written as the entries it
\* encodes
NoResponse == [status |-> 0, body |-> [json |-> <<>>]]

\* no listing is in progress
NoListing ==
    /\ lfunc = "none" /\ delimiter = FALSE /\ items = 0 /\ subdirs = {}
    /\ limit = 0 /\ filters = {} /\ marker_arg = 0 /\ marker = 0
    /\ listing = <<>> /\ rv = <<>>
    /\ lpc = "idle" /\ resp = NoResponse /\ requests = 0 /\ sent = <<>>
    /\ pages = <<>>

\* no resource operation is being looked at
NoOperation ==
    /\ operation = "none" /\ response = [status |-> 0, reason |-> "none"]
    /\ outcome = [kind |-> "none"]
    /\ headers = [given |-> FALSE, keys |-> {}] /\ headers0 = headers

\* no LengthWrapper is in use
NoWrapper ==
    /\ length = 0 /\ remaining = 0 /\ readable = 0 /\ returned = 0
    /\ chunk = 0 /\ reads = 0

\* generate_temp_url is not called
NotCalled == [kind |-> "none"]
NoTempUrl ==
    /\ args = [path |-> "", seconds |-> 0, key |-> "", method |-> "",
               absolute |-> FALSE]
    /\ now = 0 /\ temp_url = NotCalled

\* no thread is calling
Threads == {1, 2}
NoThreads ==
    /\ shared = FALSE
    /\ conns = [c \in Threads |-> [retries |-> 0, attempts |-> 0, url |-> None,
                                    token |-> None, http_conn |-> None]]
    /\ threads = [t \in Threads |-> [pc |-> "none", retried_auth |-> FALSE,
                                      made |-> 0, blind |-> FALSE]]

\* nothing goes on apart from the Connection
NoAux == NoOperation /\ NoWrapper /\ NoTempUrl /\ NoThreads
NoSide == NoListing /\ NoAux

\* ------------------------------------------------------------ construction
\* Connection.__init__: every field from its argument; no handle, attempts 0.
Init ==
    /\ \E c \in CredentialChoices :
          authurl = c[1] /\ user = c[2] /\ key = c[3]
    /\ retries \in {-1} \cup (0..MaxRetries)
    /\ starting_backoff \in {1, MaxBackoff}
    /\ max_backoff \in {1, MaxBackoff}
    /\ retry_on_ratelimit \in BOOLEAN
    \* the default auth_version "1" and no os_options
    /\ auth_version = 1 /\ os_options = NoOptions
    /\ stream_len = 0 /\ pos = 0
    \* the backoff settings reach nothing but the durations handed to sleep:
    \* they vary on the Connections holding credentials without rate-limit
    \* retry, and are 1 and 1 on the others
    /\ (starting_backoff # 1 \/ max_backoff # 1) => (key /\ ~retry_on_ratelimit)
    /\ url \in {None, PreUrl, BadUrl}
    /\ token \in {None, PreToken}
    \* a preauthurl given without a token is replaced by the first get_auth
    \* (line 1217) before anything reads it, whatever its scheme
    /\ url = BadUrl => token = PreToken
    /\ http_conn = NoConn
    /\ attempts = 0
    /\ pc = "idle" /\ orig_pos = 0
    /\ func = "none" /\ contents = "none" /\ reset_func = "None"
    /\ retried_auth = FALSE /\ backoff = 0
    /\ caller_response_dict = NoCallerDict /\ response_dict = NoResponseDict
    /\ seen = {} /\ last = NoError /\ sleeps = <<>>
    /\ calls = 0 /\ auths = 0 /\ auth_requests = 0 /\ resets = 0
    /\ result = [kind |-> "none", err |-> NoError]
    /\ url0 = None /\ token0 = None /\ conn0 = NoConn
    /\ NoSide

\* ------------------------------------------------------- starting a call
RetryEnter_KeepsCounter(rf, f, c, given) ==
    /\ pc \in {"idle", "done"}
    /\ attempts' = attempts
    /\ retried_auth' = FALSE
    /\ backoff' = starting_backoff
    /\ reset_func' = rf
    /\ func' = f
    /\ contents' = c
    /\ caller_response_dict' = IF given THEN FreshCallerDict ELSE NoCallerDict
    /\ response_dict' = NoResponseDict
    /\ pc' = "loop"
    /\ seen' = {} /\ last' = NoError /\ sleeps' = <<>>
    /\ calls' = 0 /\ auths' = 0 /\ auth_requests' = 0 /\ resets' = 0
    /\ result' = [kind |-> "none", err |-> NoError]
    /\ url0' = url /\ token0' = token /\ conn0' = http_conn
    /\ orig_pos' = IF rf = "seek" THEN pos ELSE orig_pos
    /\ UNCHANGED <<conn_vars, side_vars, url, token, http_conn, pos>>

\* _retry, lines 1209-1212: the counter, the auth flag and the backoff start
\* afresh at every top-level call; response_dict is popped from kwargs.
RetryEnter(rf, f, c, given) ==
    /\ pc \in {"idle", "done", "closed"}
    /\ attempts' = 0
    /\ retried_auth' = FALSE
    /\ backoff' = starting_backoff
    /\ reset_func' = rf
    /\ func' = f
    /\ contents' = c
    /\ caller_response_dict' = IF given THEN FreshCallerDict ELSE NoCallerDict
    /\ response_dict' = NoResponseDict
    /\ pc' = "loop"
    /\ seen' = {} /\ last' = NoError /\ sleeps' = <<>>
    /\ calls' = 0 /\ auths' = 0 /\ auth_requests' = 0 /\ resets' = 0
    /\ result' = [kind |-> "none", err |-> NoError]
    /\ url0' = url /\ token0' = token /\ conn0' = http_conn
    /\ orig_pos' = IF rf = "seek" THEN pos ELSE orig_pos
    /\ UNCHANGED <<conn_vars, side_vars, url, token, http_conn, pos>>

\* isinstance(contents, str), line 1335
IsStr(c) == c = "str"

\* `not contents`, line 1335: None and empty values are falsy, the others
\* are not.
Falsy(c) == c = "empty"

\* tell and seek: getattr(contents, 'tell', None) and getattr(contents,
\* 'seek', None) both found, lines 1341-1343
HasTellAndSeek(c) == c = "seekable"

PutObjectResetFunc_NoDefault(c) ==
    IF retries > 0 /\ HasTellAndSeek(c) THEN "seek" ELSE "None"

\* Connection.put_object, lines 1335-1345: which reset function _retry gets.
PutObjectResetFunc(c) ==
    IF IsStr(c) \/ Falsy(c) THEN "None"
    ELSE IF retries > 0 /\ HasTellAndSeek(c) THEN "seek"
    ELSE "_default_reset"

\* Connection.head_account and the other wrappers that pass reset_func None.
CallOperation == RetryEnter("None", "head_account", "none", FALSE)

\* Connection.put_object
CallPutObject == \E c \in ContentKinds :
    RetryEnter(PutObjectResetFunc(c), "put_object", c, FALSE)

\* Connection.post_object(container, obj, headers, response_dict={})
CallPostObject == RetryEnter("None", "post_object", "none", TRUE)

\* --------------------------------------------------- the retry loop body
\* while self.attempts <= self.retries: self.attempts += 1 (lines 1213-1214).
\* When the test fails the loop ends and _retry returns None.
LoopHead ==
    /\ pc = "loop"
    /\ IF attempts <= retries
       THEN /\ attempts' = attempts + 1
            /\ pc' = "auth"
            /\ UNCHANGED result
       ELSE /\ result' = [kind |-> "returned", err |-> NoError]
            /\ pc' = "done"
            /\ UNCHANGED attempts
    /\ UNCHANGED <<conn_vars, side_vars, pos, orig_pos, caller_response_dict,
                   response_dict, url, token, http_conn, func, contents,
                   reset_func, retried_auth, backoff, seen, last, sleeps,
                   calls, auths, auth_requests, resets, url0, token0, conn0>>

\* `raise` inside a handler: the call ends with the failure being handled.
Raised(e) ==
    /\ result' = [kind |-> "raised", err |-> e]
    /\ pc' = "done"

FallToSleep_NoSleep ==
    /\ pc' = "reset"
    /\ UNCHANGED result

\* fall through to sleep(backoff), line 1258
FallToSleep ==
    /\ pc' = "sleep"
    /\ UNCHANGED result

Exhausted_OffByOne == attempts >= retries

\* if self.attempts > self.retries: raise (lines 1232 and 1238)
Exhausted == attempts > retries

HasCredentials_NoKey == authurl /\ user

\* all((self.authurl, self.user, self.key)), lines 1243-1245
HasCredentials == authurl /\ user /\ key

GivesUpOn401_IgnoresFlag == ~HasCredentials

\* if retried_auth or not all((self.authurl, self.user, self.key)): raise
\* (lines 1243-1247)
GivesUpOn401 == retried_auth \/ ~HasCredentials

IsServerError_Wide(s) == 400 <= s /\ s <= 599

IsServerError_Strict(s) == 500 < s /\ s <= 599

\* elif 500 <= err.http_status <= 599, line 1251
IsServerError(s) == 500 <= s /\ s <= 599

IsRetriedRateLimit_Always(s) == s = 498

\* elif self.retry_on_ratelimit and err.http_status == 498, line 1253
IsRetriedRateLimit(s) == retry_on_ratelimit /\ s = 498

\* except SSLError: raise (lines 1228-1229)
ExceptSSLError(e, h) ==
    /\ Raised(e)
    /\ http_conn' = h
    /\ UNCHANGED <<url, token, retried_auth>>

\* except (socket.error, RequestException) (lines 1230-1235); h is the handle
\* held when the failure is caught.
ExceptSocketError(e, h) ==
    /\ IF Exhausted
       THEN Raised(e) /\ http_conn' = h
       ELSE FallToSleep /\ http_conn' = NoConn
    /\ UNCHANGED <<url, token, retried_auth>>

ExceptClientException_5xxDropsHandle(e, h) ==
    IF Exhausted
    THEN Raised(e) /\ http_conn' = h /\ UNCHANGED <<url, token, retried_auth>>
    ELSE IF e.status = 401
    THEN /\ url' = None /\ token' = None
         /\ http_conn' = h
         /\ IF GivesUpOn401
            THEN Raised(e) /\ UNCHANGED retried_auth
            ELSE FallToSleep /\ retried_auth' = TRUE
    ELSE IF e.status = 408 \/ IsServerError(e.status)
    THEN /\ FallToSleep /\ http_conn' = NoConn
         /\ UNCHANGED <<url, token, retried_auth>>
    ELSE IF IsRetriedRateLimit(e.status)
    THEN FallToSleep /\ http_conn' = h /\ UNCHANGED <<url, token, retried_auth>>
    ELSE Raised(e) /\ http_conn' = h /\ UNCHANGED <<url, token, retried_auth>>

\* except ClientException (lines 1236-1257)
ExceptClientException(e, h) ==
    IF Exhausted
    THEN Raised(e) /\ http_conn' = h /\ UNCHANGED <<url, token, retried_auth>>
    ELSE IF e.status = 401
    THEN /\ url' = None /\ token' = None
         /\ http_conn' = h
         /\ IF GivesUpOn401
            THEN Raised(e) /\ UNCHANGED retried_auth
            ELSE FallToSleep /\ retried_auth' = TRUE
    ELSE IF e.status = 408
    THEN FallToSleep /\ http_conn' = NoConn /\ UNCHANGED <<url, token, retried_auth>>
    ELSE IF IsServerError(e.status)
    THEN FallToSleep /\ http_conn' = h /\ UNCHANGED <<url, token, retried_auth>>
    ELSE IF IsRetriedRateLimit(e.status)
    THEN FallToSleep /\ http_conn' = h /\ UNCHANGED <<url, token, retried_auth>>
    ELSE Raised(e) /\ http_conn' = h /\ UNCHANGED <<url, token, retried_auth>>

\* _add_response_dict, lines 1199-1206: the attempt's dict is appended to
\* target_dict['response_dicts'] and its keys are copied over the target's
AddResponseDict(target, rd) ==
    [target EXCEPT !.response_dicts = Append(@, rd),
                   !.flat = IF rd.status # 0 THEN rd ELSE @]

\* self._add_response_dict(caller_response_dict, kwargs) with the key present
AddToCaller(rd) ==
    caller_response_dict' = IF caller_response_dict.given
                            THEN AddResponseDict(caller_response_dict, rd)
                            ELSE caller_response_dict

\* line 1201 with no 'response_dict' in kwargs: the lookup raises KeyError
MissingKey(rd) == caller_response_dict.given /\ rd = NoResponseDict

\* the KeyError leaves the handler before any of its other statements
ExceptKeyError(h) ==
    /\ Raised(KeyError)
    /\ http_conn' = h
    /\ UNCHANGED <<url, token, retried_auth, caller_response_dict>>

Except_SocketFirst(e, h, rd) ==
    IF MissingKey(rd) /\ e.type # "SSLError" THEN ExceptKeyError(h)
    ELSE AddToCaller(rd) /\
         IF e.type \in {"SSLError", "socket.error"} THEN ExceptSocketError(e, h)
         ELSE ExceptClientException(e, h)

\* the except clauses of the try block, in the order Python tries them; the
\* second and the third begin with _add_response_dict (lines 1231, 1237)
Except(e, h, rd) ==
    IF e.type = "SSLError"
    THEN ExceptSSLError(e, h) /\ UNCHANGED caller_response_dict
    ELSE IF MissingKey(rd) THEN ExceptKeyError(h)
    ELSE AddToCaller(rd) /\
         IF e.type = "socket.error" THEN ExceptSocketError(e, h)
         ELSE ExceptClientException(e, h)

\* what get_auth gives: the pair it returns or the exception it raises, and
\* whether it sent a request to the authentication service
Returns(u, t, req) == [err |-> NoError, url |-> u, token |-> t, requested |-> req]
Raises(e, req) == [err |-> e, url |-> None, token |-> None, requested |-> req]

\* the answer of the authentication service: a storage URL and a token
AuthOk == [type |-> "ok", status |-> 200, src |-> "auth"]

Override_Never(options, storage_url, t, req) == Returns(storage_url, t, req)

\* lines 374-378: `if os_options.get('object_storage_url'): return
\* os_options['object_storage_url'], token`, else `return storage_url, token`
Override(options, storage_url, t, req) ==
    IF options.object_storage_url # None
    THEN Returns(options.object_storage_url, t, req)
    ELSE Returns(storage_url, t, req)

\* get_auth (lines 321-378) when the authentication service would give
\* `answer`: version 1 always asks it (get_auth_1_0, lines 336-341); version
\* 2 returns the cached pair of os_options when both are set (lines 345-348),
\* raises 'No tenant specified' when no tenant is named (lines 362-363),
\* whether or not os_options holds a tenant_id, and asks keystone otherwise
\* (get_keystoneclient_2_0, lines 275-318, hands tenant_name and tenant_id
\* on); any other version raises (lines 370-372).
GetAuth(version, options, answer) ==
    IF version = 1
    THEN IF answer = AuthOk
         THEN Override(options, AuthUrl, AuthToken, TRUE)
         ELSE Raises(answer, TRUE)
    ELSE IF version = 2
    THEN IF options.object_storage_url # None /\ options.auth_token # None
         THEN Returns(options.object_storage_url, options.auth_token, FALSE)
         ELSE IF ~options.tenant_name
         THEN Raises(ClientException(0, "auth"), FALSE)
         ELSE IF answer = AuthOk
         THEN Override(options, AuthUrl, AuthToken, TRUE)
         ELSE Raises(answer, TRUE)
    ELSE Raises(ClientException(0, "auth"), FALSE)

\* what the Authenticator may raise
AuthFailures == {ClientException(s, "auth") : s \in AuthStatuses}
                \cup {SocketError("auth"), SSLError("auth")}

\* what the wrapped operation may raise
OpFailures == {ClientException(s, "op") : s \in OpStatuses}
              \cup {SocketError("op"), SSLError("op")}

\* if not self.url or not self.token: self.url, self.token = self.get_auth();
\* self.http_conn = None (lines 1216-1218). get_auth raising is caught by the
\* except clauses of the same try block.
NeedAuth == url = None \/ token = None

AuthSkip ==
    /\ pc = "auth"
    /\ ~NeedAuth
    /\ pc' = "connect"
    /\ UNCHANGED <<conn_vars, side_vars, pos, orig_pos, caller_response_dict,
                   response_dict, url, token, http_conn, attempts, func,
                   contents, reset_func, retried_auth, backoff, seen, last,
                   sleeps, calls, auths,
                   auth_requests, resets, result, url0, token0, conn0>>

AuthSuccess_KeepsHandle == \E a \in {AuthOk} \cup AuthFailures :
    LET r == GetAuth(auth_version, os_options, a) IN
    /\ pc = "auth"
    /\ NeedAuth
    /\ r.err = NoError
    /\ auths' = auths + 1
    /\ auth_requests' = auth_requests + (IF r.requested THEN 1 ELSE 0)
    /\ url' = r.url /\ token' = r.token
    /\ http_conn' = http_conn
    /\ pc' = "connect"
    /\ UNCHANGED <<conn_vars, side_vars, pos, orig_pos, caller_response_dict,
                   response_dict, attempts, func, contents, reset_func,
                   retried_auth, backoff, seen, last, sleeps, calls, resets,
                   result, url0, token0, conn0>>

AuthSuccess == \E a \in {AuthOk} \cup AuthFailures :
    LET r == GetAuth(auth_version, os_options, a) IN
    /\ pc = "auth"
    /\ NeedAuth
    /\ r.err = NoError
    /\ auths' = auths + 1
    /\ auth_requests' = auth_requests + (IF r.requested THEN 1 ELSE 0)
    /\ url' = r.url /\ token' = r.token
    /\ http_conn' = NoConn
    /\ pc' = "connect"
    /\ UNCHANGED <<conn_vars, side_vars, pos, orig_pos, caller_response_dict,
                   response_dict, attempts, func, contents, reset_func,
                   retried_auth, backoff, seen, last, sleeps, calls, resets,
                   result, url0, token0, conn0>>

AuthFailure == \E a \in {AuthOk} \cup AuthFailures :
    LET r == GetAuth(auth_version, os_options, a) IN
    /\ pc = "auth"
    /\ NeedAuth
    /\ r.err # NoError
    /\ auths' = auths + 1
    /\ auth_requests' = auth_requests + (IF r.requested THEN 1 ELSE 0)
    /\ seen' = seen \cup {r.err} /\ last' = r.err
    /\ Except(r.err, http_conn, response_dict)
    /\ UNCHANGED <<conn_vars, side_vars, pos, orig_pos,
                   response_dict, attempts, func,
                   contents, reset_func, backoff, sleeps, calls, resets, url0,
                   token0, conn0>>

\* if not self.http_conn: self.http_conn = self.http_connection()
\* (lines 1220-1221): a handle bound to the current storage URL.
NewHandle(u) == [url |-> u, failed |-> FALSE]

\* HTTPConnection.__init__, lines 171-172: a URL whose scheme is neither http
\* nor https raises ClientException("Unsupported scheme"), which carries no
\* HTTP status.
UnsupportedScheme(u) == u = BadUrl
ConnectError == ClientException(0, "connect")

\* lines 1220-1224: the handle is made when none is held, then
\* kwargs['response_dict'] = {} when the caller gave a response_dict
Connect ==
    /\ pc = "connect"
    /\ http_conn # NoConn \/ ~UnsupportedScheme(url)
    /\ http_conn' = IF http_conn = NoConn THEN NewHandle(url) ELSE http_conn
    /\ response_dict' = IF caller_response_dict.given
                        THEN EmptyDict(attempts) ELSE response_dict
    /\ pc' = "invoke"
    /\ UNCHANGED <<conn_vars, side_vars, pos, orig_pos,
                   caller_response_dict, url, token,
                   attempts, func, contents, reset_func, retried_auth,
                   backoff, seen, last, sleeps, calls, auths,
                   auth_requests, resets, result,
                   url0, token0, conn0>>

\* self.http_connection() raises inside the try block
ConnectFailure ==
    /\ pc = "connect"
    /\ http_conn = NoConn /\ UnsupportedScheme(url)
    /\ seen' = seen \cup {ConnectError} /\ last' = ConnectError
    /\ Except(ConnectError, http_conn, response_dict)
    /\ UNCHANGED <<conn_vars, side_vars, pos, orig_pos,
                   response_dict, attempts, func,
                   contents, reset_func, backoff, sleeps, calls, auths,
                   auth_requests,
                   resets, url0, token0, conn0>>

\* where put_object may leave a stream it reads the body from (lines
\* 944-959): anywhere from its position to its end. The other functions, and
\* put_object of a value held in memory, read no stream.
ReadPositions ==
    IF func = "put_object" /\ contents \in {"seekable", "stream"}
    THEN pos..Max(pos, stream_len)
    ELSE {pos}

\* rv = func(self.url, self.token, *args, **kwargs); return rv
\* (lines 1225-1227)
InvokeSuccess ==
    /\ pc = "invoke"
    /\ pos' \in ReadPositions
    /\ calls' = calls + 1
    /\ seen' = seen \cup {Ok} /\ last' = Ok
    /\ result' = [kind |-> "returned", err |-> Ok]
    /\ pc' = "done"
    /\ LET rd == IF caller_response_dict.given
                 THEN StoreResponse(response_dict, Ok.status) ELSE response_dict
       IN  response_dict' = rd /\ AddToCaller(rd)
    /\ UNCHANGED <<conn_vars, side_vars, orig_pos,
                   url, token, http_conn, attempts,
                   func, contents, reset_func, retried_auth, backoff, sleeps,
                   auths, auth_requests, resets, url0, token0, conn0>>

\* A handle on which a request timed out or the socket failed.
Failed(h, e) ==
    IF e.type = "socket.error" \/ (e.type = "ClientException" /\ e.status = 408)
    THEN [h EXCEPT !.failed = TRUE]
    ELSE h

\* func raises: the except clauses decide (lines 1228-1257). An operation
\* that got a response stored it (store_response) before raising its
\* ClientException; a transport failure comes before any response.
InvokeFailure == \E e \in OpFailures :
    /\ pc = "invoke"
    /\ pos' \in ReadPositions
    /\ calls' = calls + 1
    /\ seen' = seen \cup {e} /\ last' = e
    /\ LET rd == IF caller_response_dict.given /\ e.type = "ClientException"
                 THEN StoreResponse(response_dict, e.status) ELSE response_dict
       IN  response_dict' = rd /\ Except(e, Failed(http_conn, e), rd)
    /\ UNCHANGED <<conn_vars, side_vars, orig_pos, attempts, func, contents,
                   reset_func, backoff, sleeps, auths,
                   auth_requests, resets, url0, token0,
                   conn0>>

\* backoff = min(backoff * 2, self.max_backoff), line 1259
NextBackoff(b) == Min(b * 2, max_backoff)

\* sleep(backoff); backoff = min(backoff * 2, self.max_backoff)
\* (lines 1258-1259)
Sleep ==
    /\ pc = "sleep"
    /\ sleeps' = Append(sleeps, backoff)
    /\ backoff' = NextBackoff(backoff)
    /\ pc' = "reset"
    /\ UNCHANGED <<conn_vars, side_vars, pos, orig_pos, caller_response_dict,
                   response_dict, url, token, http_conn, attempts, func,
                   contents, reset_func, retried_auth, seen, last, calls,
                   auths, auth_requests, resets, result, url0, token0, conn0>>

\* if reset_func: reset_func(func, *args, **kwargs) (lines 1260-1261).
\* _default_reset raises, outside the try block, so the call ends with it.
Reset_NoSeek ==
    /\ pc = "reset"
    /\ pos' = pos
    /\ IF reset_func = "_default_reset"
       THEN Raised(ResetError) /\ UNCHANGED resets
       ELSE /\ pc' = "loop"
            /\ resets' = IF reset_func = "seek" THEN resets + 1 ELSE resets
            /\ UNCHANGED result
    /\ UNCHANGED <<conn_vars, side_vars, orig_pos, caller_response_dict,
                   response_dict, url, token, http_conn, attempts, func,
                   contents, reset_func, retried_auth, backoff, seen, last,
                   sleeps, calls, auths, auth_requests, url0, token0, conn0>>

Reset ==
    /\ pc = "reset"
    /\ pos' = IF reset_func = "seek" THEN orig_pos ELSE pos
    /\ IF reset_func = "_default_reset"
       THEN Raised(ResetError) /\ UNCHANGED resets
       ELSE /\ pc' = "loop"
            /\ resets' = IF reset_func = "seek" THEN resets + 1 ELSE resets
            /\ UNCHANGED result
    /\ UNCHANGED <<conn_vars, side_vars, orig_pos, caller_response_dict,
                   response_dict, url, token, http_conn, attempts, func,
                   contents, reset_func, retried_auth, backoff, seen, last,
                   sleeps, calls, auths, auth_requests, url0, token0, conn0>>

Next ==
    \/ CallOperation
    \/ CallPutObject
    \/ CallPostObject
    \/ LoopHead
    \/ AuthSkip
    \/ AuthSuccess
    \/ AuthFailure
    \/ Connect
    \/ ConnectFailure
    \/ InvokeSuccess
    \/ InvokeFailure
    \/ Sleep
    \/ Reset

Spec == Init /\ [][Next]_vars

TypeOK ==
    /\ pc \in {"idle", "loop", "auth", "connect", "invoke", "sleep", "reset", "done",
              "closed"}
    /\ attempts \in 0..(MaxRetries + 1)
    /\ Len(sleeps) <= MaxRetries

\* ------------------------------------------------------- full listings
\* An entry of a listing: {'name': n} or, for a get_container with a
\* delimiter, possibly {'subdir': n}.
Entry(n) == [key |-> IF n \in subdirs THEN "subdir" ELSE "name", val |-> n]

\* The server's answer to GET ?format=json&marker=m&limit=l (lines 433-462,
\* 575-612): the entries named after the marker, in order, at most l of them
\* ([] for a 204).
Page(m, l) ==
    LET n == IF items - m < 0 THEN 0 ELSE Min(l, items - m)
    IN  [i \in 1..n |-> Entry(m + i)]

StatusFails_Inclusive(status) == status <= 200 \/ status >= 300

\* `if resp.status < 200 or resp.status >= 300: raise ClientException(...)`,
\* the test every resource operation makes on its response (lines 454, 487,
\* 524, 601, 643, 689, 729, 766, 817, 868, 974, 1013, 1067, 1088)
StatusFails(status) == status < 200 \/ status >= 300

\* json_loads(body): the entries the text encodes
JsonLoads(body) == body.json

ListingOf_No204(r) == JsonLoads(r.body)

\* the list a listing request returns (lines 460-462, 610-612):
\* `if resp.status == 204: return resp_headers, []`, else json_loads(body)
ListingOf(r) == IF r.status = 204 THEN <<>> ELSE JsonLoads(r.body)

\* a body that is not the listing: one entry naming nothing the server holds
StaleBody == [json |-> <<[key |-> "name", val |-> 0]>>]

\* The responses the server may give to GET ?format=json&marker=m&limit=l:
\* 200 with the page; when the page is empty also 204, with an empty body or
\* with any other one.
Answers(m, l) ==
    {[status |-> 200, body |-> [json |-> Page(m, l)]]}
    \cup (IF Page(m, l) = <<>>
          THEN {[status |-> 204, body |-> [json |-> <<>>]],
                [status |-> 204, body |-> StaleBody]}
          ELSE {})

\* the statuses of a failed listing request
ListingFailures == {199, 300, 404, 500}

\* dict.get(k, default)
Get(e, k, default) == IF e.key = k THEN e.val ELSE default

LastMarker_First(l) == l[1].val

\* marker = listing[-1]['name'] (lines 426, 566); with a delimiter
\* get_container takes listing[-1].get('name', listing[-1].get('subdir'))
\* (line 568). Without a delimiter the server reports no subdir entries.
LastMarker(l) ==
    IF delimiter
    THEN Get(l[Len(l)], "name", Get(l[Len(l)], "subdir", 0))
    ELSE l[Len(l)].val

\* no call has been made on the Connection
NoCall ==
    /\ http_conn = NoConn /\ attempts = 0 /\ pc = "idle" /\ orig_pos = 0
    /\ func = "none" /\ contents = "none" /\ reset_func = "None"
    /\ retried_auth = FALSE /\ backoff = 0
    /\ caller_response_dict = NoCallerDict /\ response_dict = NoResponseDict
    /\ seen = {} /\ last = NoError /\ sleeps = <<>>
    /\ calls = 0 /\ auths = 0 /\ auth_requests = 0 /\ resets = 0
    /\ result = [kind |-> "none", err |-> NoError]
    /\ url0 = None /\ token0 = None /\ conn0 = NoConn

\* a Connection nothing is called on
IdleConnection ==
    /\ \E c \in CredentialChoices : authurl = c[1] /\ user = c[2] /\ key = c[3]
    /\ retries = 0 /\ starting_backoff = 1 /\ max_backoff = 1
    /\ retry_on_ratelimit = FALSE
    /\ auth_version = 1 /\ os_options = NoOptions
    /\ stream_len = 0 /\ pos = 0
    /\ url = None /\ token = None
    /\ NoCall

Query_NoDelimiter(m) ==
    [marker |-> m, limit |-> limit, delimiter |-> FALSE, filters |-> filters]

\* the query string of one listing request: qs = 'format=json' and then each
\* of marker, limit, prefix, delimiter, end_marker and path that is truthy
\* (lines 434-443, 577-589); get_account takes no delimiter and no path
Query(m) ==
    [marker |-> m, limit |-> limit, delimiter |-> delimiter,
     filters |-> filters]

\* the prefix, end_marker and path arguments a call may be given
FilterChoices ==
    IF lfunc = "get_container"
    THEN {{}, {"prefix"}, {"prefix", "end_marker", "path"}}
    ELSE {{}, {"prefix"}, {"prefix", "end_marker"}}

\* the arguments of a full-listing call and the state of the server
ListingArgs ==
    /\ lfunc \in {"get_account", "get_container"}
    /\ delimiter \in (IF lfunc = "get_container" THEN BOOLEAN ELSE {FALSE})
    /\ items \in 0..MaxItems
    /\ subdirs \in (IF delimiter THEN SUBSET (1..items) ELSE {{}})
    /\ limit \in 1..MaxLimit
    /\ filters \in FilterChoices
    /\ marker_arg \in 0..1
    /\ marker = marker_arg
    /\ listing = <<>> /\ rv = <<>>
    /\ lpc = "idle" /\ resp = NoResponse /\ requests = 0 /\ sent = <<>>
    /\ pages = <<>>

\* get_account / get_container called directly with full_listing=True
ListingInit == IdleConnection /\ NoAux /\ ListingArgs

\* rv = get_account(url, token, marker, limit, ...); listing = rv[1]
\* (lines 421-424, 560-563)
FirstPage ==
    /\ lpc = "idle" /\ lfunc # "none"
    /\ sent' = Append(sent, Query(marker))
    /\ \E r \in Answers(Query(marker).marker, Query(marker).limit) :
          /\ ~StatusFails(r.status)
          /\ resp' = r
          /\ rv' = ListingOf(r)
    /\ listing' = rv'
    /\ requests' = requests + 1
    /\ pages' = Append(pages, rv')
    /\ lpc' = "while"
    /\ UNCHANGED <<retry_vars, aux_vars, lfunc, delimiter, items, subdirs,
                   limit, filters, marker_arg, marker>>

\* one iteration of `while listing:` (lines 425-431, 564-573)
NextPage ==
    /\ lpc = "while" /\ listing # <<>>
    /\ marker' = LastMarker(listing)
    /\ sent' = Append(sent, Query(marker'))
    /\ \E r \in Answers(Query(marker').marker, Query(marker').limit) :
          /\ ~StatusFails(r.status)
          /\ resp' = r
          /\ listing' = ListingOf(r)
    /\ rv' = IF listing' # <<>> THEN rv \o listing' ELSE rv
    /\ requests' = requests + 1
    /\ pages' = Append(pages, listing')
    /\ UNCHANGED <<retry_vars, aux_vars, lfunc, delimiter, items, subdirs,
                   limit, filters, marker_arg, lpc>>

\* `while listing:` finds the page empty: return rv (lines 432, 574)
ListingReturn ==
    /\ lpc = "while" /\ listing = <<>>
    /\ lpc' = "done"
    /\ UNCHANGED <<retry_vars, aux_vars, lfunc, delimiter, items, subdirs,
                   limit, filters, marker_arg, marker, listing, rv, resp,
                   requests, sent, pages>>

\* a listing request answered with a status outside 2xx: the ClientException
\* (lines 454-459, 601-606) leaves the function, and rv is lost
ListingRaise ==
    /\ \/ lpc = "idle" /\ lfunc # "none" /\ marker' = marker
       \/ lpc = "while" /\ listing # <<>> /\ marker' = LastMarker(listing)
    /\ sent' = Append(sent, Query(marker'))
    /\ \E st \in ListingFailures :
          /\ StatusFails(st)
          /\ resp' = [status |-> st, body |-> [json |-> <<>>]]
    /\ requests' = requests + 1
    /\ lpc' = "raised"
    /\ UNCHANGED <<retry_vars, aux_vars, lfunc, delimiter, items, subdirs,
                   limit, filters, marker_arg, listing, rv, pages>>

ListingNext == FirstPage \/ NextPage \/ ListingReturn \/ ListingRaise

ListingSpec == ListingInit /\ [][ListingNext]_vars

\* ------------------------------------------- full listings under _retry
\* Connection.get_account / Connection.get_container with full_listing=True
\* (lines 1266-1274, 1285-1295): self._retry(None, get_account, marker=marker,
\* ..., full_listing=full_listing). Here sent and pages are those of the
\* invocation of the function in progress; requests counts them all.
RetriedInit ==
    /\ authurl = TRUE /\ user = TRUE /\ key = TRUE
    /\ retries \in 0..2 /\ starting_backoff = 1 /\ max_backoff = 1
    /\ retry_on_ratelimit = FALSE
    /\ auth_version = 1 /\ os_options = NoOptions
    /\ stream_len = 0 /\ pos = 0
    /\ url = PreUrl /\ token = PreToken
    /\ NoCall /\ NoAux
    /\ ListingArgs /\ filters = {}

CallListing == pc = "idle" /\ RetryEnter("None", lfunc, "none", FALSE)

\* the function invoked by _retry runs its listing loop (line 1225)
ListingStep ==
    /\ pc = "invoke" /\ func = lfunc
    /\ FirstPage \/ NextPage \/ ListingReturn \/ ListingRaise

\* the function returned rv: _retry returns it (lines 1225-1227)
ListingInvoked == lpc = "done" /\ InvokeSuccess

ListingFailure_Resumes ==
    LET e == ClientException(resp.status, "op") IN
    /\ pc = "invoke" /\ lpc = "raised"
    /\ calls' = calls + 1
    /\ seen' = seen \cup {e} /\ last' = e
    /\ response_dict' = response_dict
    /\ Except(e, Failed(http_conn, e), response_dict)
    /\ lpc' = "while"
    /\ UNCHANGED <<marker, listing, rv, sent, pages>>
    /\ UNCHANGED <<conn_vars, aux_vars, pos, orig_pos, attempts, func, contents,
                   reset_func, backoff, sleeps, auths, auth_requests, resets,
                   url0, token0, conn0, lfunc, delimiter, items, subdirs,
                   limit, filters, marker_arg, resp, requests>>

\* the function raised its ClientException: the except clauses of _retry
\* decide (lines 1238-1257). The frame of the function is gone with its
\* locals marker, listing and rv; the next attempt calls the function with
\* the arguments _retry was given (line 1225).
ListingFailure ==
    LET e == ClientException(resp.status, "op") IN
    /\ pc = "invoke" /\ lpc = "raised"
    /\ calls' = calls + 1
    /\ seen' = seen \cup {e} /\ last' = e
    /\ response_dict' = response_dict
    /\ Except(e, Failed(http_conn, e), response_dict)
    /\ lpc' = "idle"
    /\ marker' = marker_arg /\ listing' = <<>> /\ rv' = <<>>
    /\ sent' = <<>> /\ pages' = <<>>
    /\ UNCHANGED <<conn_vars, aux_vars, pos, orig_pos, attempts, func, contents,
                   reset_func, backoff, sleeps, auths, auth_requests, resets,
                   url0, token0, conn0, lfunc, delimiter, items, subdirs,
                   limit, filters, marker_arg, resp, requests>>

RetriedNext ==
    \/ CallListing
    \/ LoopHead
    \/ AuthSkip
    \/ Connect
    \/ ListingStep
    \/ ListingInvoked
    \/ ListingFailure
    \/ Sleep
    \/ Reset

RetriedSpec == RetriedInit /\ [][RetriedNext]_vars

\* ------------------------------------------------------- close()
\* hasattr(conn, 'close') and callable(conn.close), line 1181, for the
\* connection object of a handle made by http_connection() (lines 240-243):
\* class HTTPConnection (lines 141-237) defines __init__, _request, request,
\* putrequest and getresponse, and no close.
HasClose(h) == FALSE

\* Connection.close (lines 1177-1183); pc = "closed" says that close() is the
\* last thing called on the Connection
Close ==
    /\ pc \in {"idle", "done"}
    /\ http_conn' = IF http_conn # NoConn /\ HasClose(http_conn)
                    THEN NoConn ELSE http_conn
    /\ pc' = "closed"
    /\ UNCHANGED <<conn_vars, side_vars, pos, orig_pos, caller_response_dict,
                   response_dict, url, token, attempts, func, contents,
                   reset_func, retried_auth, backoff, seen, last, sleeps,
                   calls, auths, auth_requests, resets, result, url0, token0,
                   conn0>>

\* Connections with all the credentials, with or without a storage URL and a
\* token given beforehand
CloseInit ==
    /\ authurl = TRUE /\ user = TRUE /\ key = TRUE
    /\ retries \in 0..1 /\ starting_backoff = 1 /\ max_backoff = 1
    /\ retry_on_ratelimit = FALSE
    /\ auth_version = 1 /\ os_options = NoOptions
    /\ stream_len = 0 /\ pos = 0
    /\ \/ url = None /\ token = None
       \/ url = PreUrl /\ token = PreToken
    /\ NoCall /\ NoSide

\* top-level calls and calls of close() on them
CloseNext ==
    \/ CallOperation
    \/ LoopHead
    \/ AuthSkip
    \/ AuthSuccess
    \/ AuthFailure
    \/ Connect
    \/ InvokeSuccess
    \/ InvokeFailure
    \/ Sleep
    \/ Reset
    \/ Close

CloseSpec == CloseInit /\ [][CloseNext]_vars

\* ------------------------------------------------------- stream bodies
\* Connections holding a storage URL, a token and all the credentials, whose
\* caller uploads from a stream standing at any position
StreamInit ==
    /\ authurl = TRUE /\ user = TRUE /\ key = TRUE
    /\ retries \in 0..2 /\ starting_backoff = 1 /\ max_backoff = 1
    /\ retry_on_ratelimit = FALSE
    /\ auth_version = 1 /\ os_options = NoOptions
    /\ stream_len \in 1..MaxBody /\ pos \in 0..stream_len
    /\ url = PreUrl /\ token = PreToken
    /\ NoCall /\ NoSide

\* calls of Connection.put_object on them
StreamNext ==
    \/ CallPutObject
    \/ LoopHead
    \/ AuthSkip
    \/ AuthSuccess
    \/ AuthFailure
    \/ Connect
    \/ InvokeSuccess
    \/ InvokeFailure
    \/ Sleep
    \/ Reset

StreamSpec == StreamInit /\ [][StreamNext]_vars

\* ------------------------------------------------------ authentication
\* Connections built without preauthurl, of every auth_version and with
\* every choice of os_options, holding all the credentials
AuthInit ==
    /\ authurl = TRUE /\ user = TRUE /\ key = TRUE
    /\ retries \in 0..1 /\ starting_backoff = 1 /\ max_backoff = 1
    /\ retry_on_ratelimit = FALSE
    /\ auth_version \in {1, 2, 3}
    /\ os_options \in OptionChoices
    /\ stream_len = 0 /\ pos = 0
    /\ url = None /\ token \in {None, PreToken}
    /\ NoCall /\ NoSide

\* top-level calls on them, one after the other
AuthNext ==
    \/ CallOperation
    \/ LoopHead
    \/ AuthSkip
    \/ AuthSuccess
    \/ AuthFailure
    \/ Connect
    \/ InvokeSuccess
    \/ InvokeFailure
    \/ Sleep
    \/ Reset

AuthSpec == AuthInit /\ [][AuthNext]_vars

\* ------------------------------------------------------ LengthWrapper
\* the sizes a caller may hand to read(): -1 asks for everything, as read()
\* without an argument does
ReadSizes == (-1)..MaxStream

\* self._readable.read(size): what a file-like object holding `avail` bytes
\* may give, at most `size` of them, possibly fewer
MayRead(avail, size) == IF size < 0 THEN 0..avail ELSE 0..Min(size, avail)

Truncate_None(k, rem) == k

\* len(data[:self._remaining]) for data of k bytes (utils.py line 215)
Truncate(k, rem) == Min(k, rem)

\* LengthWrapper(readable, length): self._length = self._remaining = length
\* (utils.py lines 192-204), over an object holding any number of bytes
WrapperInit ==
    /\ IdleConnection /\ NoListing /\ NoOperation /\ NoTempUrl /\ NoThreads
    /\ length \in 0..MaxLength
    /\ remaining = length
    /\ readable \in 0..MaxStream
    /\ returned = 0 /\ chunk = 0 /\ reads = 0

\* read(*args) with nothing remaining: `if self._remaining <= 0: return ''`
\* (utils.py lines 212-213); the wrapped object is not read
ReadExhausted ==
    /\ reads < MaxReads
    /\ remaining <= 0
    /\ chunk' = 0
    /\ reads' = reads + 1
    /\ UNCHANGED <<retry_vars, listing_vars, operation_vars, temp_url_vars,
                   thread_vars, length, remaining, readable, returned>>

\* read(*args) otherwise (utils.py lines 215-223): the wrapped object gives
\* k bytes, the chunk is their first self._remaining ones
Read == \E size \in ReadSizes : \E k \in MayRead(readable, size) :
    /\ reads < MaxReads
    /\ remaining > 0
    /\ readable' = readable - k
    /\ chunk' = Truncate(k, remaining)
    /\ remaining' = remaining - chunk'
    /\ returned' = returned + chunk'
    /\ reads' = reads + 1
    /\ UNCHANGED <<retry_vars, listing_vars, operation_vars, temp_url_vars,
                   thread_vars, length>>

WrapperNext == ReadExhausted \/ Read

WrapperSpec == WrapperInit /\ [][WrapperNext]_vars

\* -------------------------------------------------- generate_temp_url
Paths == {"/v1/AUTH_account/c/o", "/v1/AUTH_account/c/p"}
Keys == {"secret", "other"}
Methods == {"GET", "get", "PUT", "put"}

\* method.upper()
Upper_Identity(m) == m

Upper(m) ==
    CASE m \in {"GET", "get"} -> "GET"
      [] m \in {"PUT", "put"} -> "PUT"

\* str(expiration): the decimal text of the number
Str(n) == [decimal |-> n]

\* hmac.new(key.encode(), hmac_body.encode(), hashlib.sha1).hexdigest() of
\* the body '\n'.join(parts): a value that tells apart any two keys and any
\* two bodies (utils.py lines 101-106)
Hmac(k, parts) == [hmac_sha1_key |-> k, body |-> parts]

\* int(x) of a non-negative x counted in half seconds (utils.py lines 89, 91)
ToInt(halves) == halves \div 2

GenerateTempUrl_RelativeOnly(a, clock) ==
    IF ~a.absolute /\ a.seconds < 0
    THEN [kind |-> "ValueError"]
    ELSE LET expiration == IF ~a.absolute
                           THEN ToInt(clock + 2 * a.seconds)
                           ELSE ToInt(2 * a.seconds)
             hmac_body == <<Upper(a.method), Str(expiration), a.path>>
         IN  [kind |-> "url", path |-> a.path,
              temp_url_sig |-> Hmac(a.key, hmac_body),
              temp_url_expires |-> expiration]

\* generate_temp_url(path, seconds, key, method, absolute) called when
\* time.time() gives `clock` (utils.py lines 68-112), for integer seconds
GenerateTempUrl(a, clock) ==
    IF a.seconds < 0
    THEN [kind |-> "ValueError"]
    ELSE LET expiration == IF ~a.absolute
                           THEN ToInt(clock + 2 * a.seconds)
                           ELSE ToInt(2 * a.seconds)
             hmac_body == <<Upper(a.method), Str(expiration), a.path>>
         IN  [kind |-> "url", path |-> a.path,
              temp_url_sig |-> Hmac(a.key, hmac_body),
              temp_url_expires |-> expiration]

\* the arguments of a call and the clock it will read, beside a Connection
TempUrlInit ==
    /\ IdleConnection /\ NoListing /\ NoOperation /\ NoWrapper /\ NoThreads
    /\ args \in [path : Paths, seconds : (-2)..MaxSeconds, key : Keys,
                  method : Methods, absolute : BOOLEAN]
    /\ now \in 0..MaxClock
    /\ temp_url = NotCalled

CallGenerateTempUrl ==
    /\ args.path # "" /\ temp_url = NotCalled
    /\ temp_url' = GenerateTempUrl(args, now)
    /\ UNCHANGED <<retry_vars, listing_vars, operation_vars, wrapper_vars,
                   thread_vars, args, now>>

TempUrlSpec == TempUrlInit /\ [][CallGenerateTempUrl]_vars

\* ------------------------------------------------- concurrent callers
\* Two threads run Connection._retry (lines 1208-1261) at the same time, on
\* one Connection instance or on one each. The Connections hold all the
\* credentials and the Authenticator answers; the operation may succeed or
\* fail with 401 or 500. Each action is one statement of _retry, run by one
\* thread; the fields of `self` are read when the statement runs.
ConnOf_Same(t) == 1

\* the instance thread t calls on
ConnOf(t) == IF shared THEN 1 ELSE t

ThreadStatuses == {200, 401, 500}

ConcurrentInit ==
    /\ IdleConnection /\ NoListing /\ NoOperation /\ NoWrapper /\ NoTempUrl
    /\ shared \in BOOLEAN
    /\ conns \in [Threads -> [retries : 0..1, attempts : {0},
                              url : {None, PreUrl}, token : {None, PreToken},
                              http_conn : {None}]]
    /\ shared => conns[2] = conns[1]
    /\ threads = [t \in Threads |-> [pc |-> "idle", retried_auth |-> FALSE,
                                      made |-> 0, blind |-> FALSE]]

\* what a step of thread t leaves alone
ThreadFrame ==
    UNCHANGED <<retry_vars, listing_vars, operation_vars, wrapper_vars,
                temp_url_vars, shared>>

\* self.attempts = 0; retried_auth = False (lines 1209-1210)
ThreadEnter(t) ==
    /\ threads[t].pc = "idle"
    /\ conns' = [conns EXCEPT ![ConnOf(t)].attempts = 0]
    /\ threads' = [threads EXCEPT ![t].pc = "loop", ![t].retried_auth = FALSE]
    /\ ThreadFrame

\* while self.attempts <= self.retries: self.attempts += 1 (lines 1213-1214)
ThreadLoopHead(t) ==
    LET c == ConnOf(t) IN
    /\ threads[t].pc = "loop"
    /\ threads[t].made < MaxMade
    /\ IF conns[c].attempts <= conns[c].retries
       THEN /\ conns' = [conns EXCEPT ![c].attempts = @ + 1]
            /\ threads' = [threads EXCEPT ![t].pc = "auth", ![t].made = @ + 1]
       ELSE /\ threads' = [threads EXCEPT ![t].pc = "done"]
            /\ UNCHANGED conns
    /\ ThreadFrame

\* lines 1216-1218
ThreadAuth(t) ==
    LET c == ConnOf(t) IN
    /\ threads[t].pc = "auth"
    /\ conns' = IF conns[c].url = None \/ conns[c].token = None
                THEN [conns EXCEPT ![c].url = AuthUrl, ![c].token = AuthToken,
                                   ![c].http_conn = None]
                ELSE conns
    /\ threads' = [threads EXCEPT ![t].pc = "connect"]
    /\ ThreadFrame

\* lines 1220-1222; http_connection(None) raises out of _retry
ThreadConnect(t) ==
    LET c == ConnOf(t) IN
    /\ threads[t].pc = "connect"
    /\ IF conns[c].http_conn # None
       THEN /\ threads' = [threads EXCEPT ![t].pc = "invoke"]
            /\ UNCHANGED conns
       ELSE IF conns[c].url = None
       THEN /\ threads' = [threads EXCEPT ![t].pc = "done"]
            /\ UNCHANGED conns
       ELSE /\ conns' = [conns EXCEPT ![c].http_conn = conns[c].url]
            /\ threads' = [threads EXCEPT ![t].pc = "invoke"]
    /\ ThreadFrame

\* rv = func(self.url, self.token, ...) and the handler of what it raises
\* (lines 1225-1257)
ThreadInvoke(t) == \E s \in ThreadStatuses :
    LET c == ConnOf(t)
        absent == conns[c].url = None \/ conns[c].token = None
        pcAfter ==
            IF s = 200 THEN "done"
            ELSE IF conns[c].attempts > conns[c].retries THEN "done"
            ELSE IF s = 401 /\ threads[t].retried_auth THEN "done"
            ELSE "sleep"
    IN
    /\ threads[t].pc = "invoke"
    /\ threads' = [threads EXCEPT
                      ![t].pc = pcAfter,
                      ![t].blind = @ \/ absent,
                      ![t].retried_auth = @ \/ (s = 401 /\ pcAfter = "sleep")]
    /\ conns' = IF s = 401 /\ conns[c].attempts <= conns[c].retries
                THEN [conns EXCEPT ![c].url = None, ![c].token = None]
                ELSE conns
    /\ ThreadFrame

\* sleep(backoff) (line 1258); no reset_func
ThreadSleep(t) ==
    /\ threads[t].pc = "sleep"
    /\ threads' = [threads EXCEPT ![t].pc = "loop"]
    /\ UNCHANGED conns
    /\ ThreadFrame

ConcurrentNext == \E t \in Threads :
    \/ ThreadEnter(t)
    \/ ThreadLoopHead(t)
    \/ ThreadAuth(t)
    \/ ThreadConnect(t)
    \/ ThreadInvoke(t)
    \/ ThreadSleep(t)

ConcurrentSpec == ConcurrentInit /\ [][ConcurrentNext]_vars

\* ------------------------------------------------- resource operations
\* the module-level functions that issue one request and read its response
Operations ==
    {"get_account", "head_account", "post_account",
     "get_container", "head_container", "put_container", "post_container",
     "delete_container",
     "get_object", "head_object", "put_object", "post_object", "delete_object",
     "get_capabilities"}

\* resp.status and resp.reason of the response
Statuses == {100, 199, 200, 201, 204, 299, 300, 404, 500}
Reasons == {"OK", "Other"}

\* what each function returns after the status test
ResultOf(op) ==
    CASE op \in {"get_account", "get_container"} -> "headers and listing"
      [] op \in {"head_account", "head_container", "head_object"} -> "headers"
      [] op = "get_object" -> "headers and body"
      [] op = "put_object" -> "etag"
      [] op = "get_capabilities" -> "capabilities"
      [] OTHER -> "None"

\* raise ClientException('... failed', ..., http_status=resp.status,
\* http_reason=resp.reason, http_response_content=body)
RaiseFor(r) ==
    [kind |-> "raised", type |-> "ClientException",
     http_status |-> r.status, http_reason |-> r.reason]

ReturnFor(op) == [kind |-> "returned", value |-> ResultOf(op)]

\* the functions that take a headers argument, and those that require it
\* (lines 498, 615, 655, 697, 774-776, 879-881, 983, 1020-1021)
TakesHeaders ==
    {"post_account", "head_container", "put_container", "post_container",
     "get_object", "put_object", "post_object", "delete_object"}
RequiresHeaders == {"post_account", "post_container", "post_object"}

\* the dicts a caller may pass: none, an empty one, one with a metadata
\* header, one with a content-length header
NoHeaders == [given |-> FALSE, keys |-> {}]
HeaderChoices(op) ==
    (IF op \in RequiresHeaders THEN {} ELSE {NoHeaders})
    \cup (IF op \in TakesHeaders
          THEN [given : {TRUE}, keys : {{}, {"x-meta"}, {"content-length"}}]
          ELSE {})

\* `if not 'content-length' in (k.lower() for k in headers):
\* headers['Content-Length'] = '0'` (lines 679-680, 719-720)
WithContentLength(keys) ==
    IF "content-length" \in keys \/ "Content-Length" \in keys
    THEN keys ELSE keys \cup {"Content-Length"}

\* what the function leaves in the caller's dict. post_account and
\* post_object write headers['X-Auth-Token'] = token into the dict they are
\* given (lines 516, 1004), post_container adds a Content-Length too (lines
\* 718-720), and so does put_container unless the dict is empty or absent
\* (lines 676-680); head_container, get_object, put_object and delete_object
\* work on a dict of their own (lines 634-636, 807-808, 927-932, 1053-1058).
HeadersAfter(op, h) ==
    CASE op \in {"post_account", "post_object"} ->
             [h EXCEPT !.keys = @ \cup {"X-Auth-Token"}]
      [] op = "post_container" ->
             [h EXCEPT !.keys = WithContentLength(@ \cup {"X-Auth-Token"})]
      [] op = "put_container" /\ h.given /\ h.keys # {} ->
             [h EXCEPT !.keys = WithContentLength(@ \cup {"X-Auth-Token"})]
      [] OTHER -> h

\* a function about to read a response
OperationInit ==
    /\ IdleConnection /\ NoListing /\ NoWrapper /\ NoTempUrl /\ NoThreads
    /\ operation \in Operations
    /\ response \in [status : Statuses, reason : Reasons]
    /\ outcome = [kind |-> "none"]
    /\ headers \in HeaderChoices(operation) /\ headers0 = headers

\* one call of the function: the request it builds, and from
\* resp = conn.getresponse() to the raise or the return
Operate ==
    /\ operation # "none" /\ outcome.kind = "none"
    /\ outcome' = IF StatusFails(response.status)
                  THEN RaiseFor(response)
                  ELSE ReturnFor(operation)
    /\ headers' = HeadersAfter(operation, headers)
    /\ UNCHANGED <<retry_vars, listing_vars, wrapper_vars, temp_url_vars,
                   thread_vars, operation, response, headers0>>

OperationSpec == OperationInit /\ [][Operate]_vars

\* -------------------------------------------------------------- claims
InCall == pc \notin {"idle", "done"}
Ended == pc = "done"
RaisedWith(e) == result = [kind |-> "raised", err |-> e]
Returned == result.kind = "returned"

\* the failures the spec calls retryable as they are: 5xx, 408, a transport
\* failure that is no SSL failure
Is5xx(e) == e.type = "ClientException" /\ e.status \in 500..599
Is408(e) == e.type = "ClientException" /\ e.status = 408
Is401(e) == e.type = "ClientException" /\ e.status = 401
IsTransport(e) == e.type = "socket.error"
PlainRetryable(e) == Is5xx(e) \/ Is408(e) \/ IsTransport(e)

\* every attempt so far reached the operation, which failed retryably
AllOpRetryable == \A e \in seen : e.src = "op" /\ PlainRetryable(e)

\* steps the call in progress can still take, at most
Variant ==
    IF ~InCall THEN -1
    ELSE 6 * (retries + 1 - attempts)
         + (CASE pc = "auth" -> 5 [] pc = "connect" -> 4 [] pc = "invoke" -> 3
              [] pc = "sleep" -> 2 [] pc = "reset" -> 1 [] pc = "loop" -> 0)

\* C1 as stated: with retries >= 0 a top-level call invokes the operation at
\* least once and at most retries+1 times, and when every attempt failed with
\* a retryable failure it invoked it exactly retries+1 times and raises the
\* failure of the last attempt.
C1_AsStated ==
    (retries >= 0 /\ Ended) =>
        /\ calls >= 1
        /\ calls <= retries + 1
        /\ (\A e \in seen : PlainRetryable(e)) =>
               (calls = retries + 1 /\ RaisedWith(last))

C1_Bounds ==
    retries >= 0 =>
        /\ calls <= retries + 1
        /\ attempts <= retries + 1
        /\ Variant >= -1
        /\ Ended =>
            /\ (\A e \in seen : e.src = "op") => calls >= 1
            /\ (reset_func # "_default_reset" /\ AllOpRetryable) =>
                   (calls = retries + 1 /\ RaisedWith(last))

\* C1, amended: with retries >= 0 a top-level call makes at most retries+1
\* attempts and invokes the operation at most retries+1 times, every step
\* brings its end nearer, and it invokes the operation at least once unless
\* the Authenticator or the creation of the handle failed; when the body
\* needs no reset or can be reset and every attempt reached the operation,
\* which failed with a 5xx, a 408 or a non-SSL transport failure, the
\* operation was invoked exactly retries+1 times and the call raises the
\* failure of the last attempt.
C1_Amended ==
    /\ []C1_Bounds
    /\ [][(InCall /\ retries >= 0) => Variant' < Variant]_vars

C1_Witness ==
    /\ Ended /\ retries >= 2 /\ calls = retries + 1
    /\ AllOpRetryable /\ RaisedWith(last) /\ Is408(last)
    /\ \E e \in seen : Is5xx(e)

\* C2: a call that began with URL and token both present, needs no reset
\* failure (no body, or a resettable one) and whose attempts so far failed
\* with 5xx only keeps the stored URL and token, never invokes the
\* Authenticator and gives up only at the retry limit; when attempt N
\* succeeds the call returns that attempt's result.
C2_RetryConvergence ==
    ( /\ url0 # None /\ token0 # None
      /\ reset_func # "_default_reset"
      /\ retries >= 0
      /\ \A e \in seen : e = Ok \/ (e.src = "op" /\ Is5xx(e)) ) =>
        /\ url = url0 /\ token = token0
        /\ auths = 0
        /\ calls = IF pc \in {"auth", "connect", "invoke"}
                   THEN attempts - 1 ELSE attempts
        /\ (Ended /\ Ok \in seen) => (result = [kind |-> "returned", err |-> Ok]
                                      /\ last = Ok /\ calls = attempts)
        /\ (Ended /\ Ok \notin seen) => (attempts = retries + 1 /\ RaisedWith(last))

C2_Witness ==
    /\ Ended /\ Returned /\ url0 = PreUrl /\ token0 = PreToken
    /\ retries >= 2 /\ attempts = retries + 1 /\ calls = attempts
    /\ seen = {Ok, ClientException(500, "op")}
    /\ reset_func = "seek" /\ url = PreUrl /\ token = PreToken /\ auths = 0

\* C3 as stated: once an attempt on which the operation failed with 401 has
\* been handled (the call is about to sleep or has ended), the stored URL
\* and token are both absent.
C3_AsStated ==
    ( /\ retries >= 0
      /\ pc \in {"sleep", "done"}
      /\ last.src = "op" /\ Is401(last) ) =>
        (url = None /\ token = None)

\* an attempt ends in this step with a 401 (from the operation or from the
\* Authenticator)
AttemptFailsWith401 ==
    /\ pc \in {"auth", "invoke"}
    /\ pc' \in {"sleep", "done"}
    /\ Is401(last')

\* C4: within one top-level call at most one 401 leads to a retry: a 401 is
\* retried only while no earlier 401 of the call was, and once one has been,
\* every later 401 of the call ends it with that 401, without a sleep and
\* without another attempt, whatever failed in between.
C4_Step ==
    /\ (AttemptFailsWith401 /\ retried_auth) =>
           /\ pc' = "done"
           /\ result' = [kind |-> "raised", err |-> last']
           /\ sleeps' = sleeps /\ attempts' = attempts
    /\ (AttemptFailsWith401 /\ pc' = "sleep") => (~retried_auth /\ retried_auth')
    /\ (InCall /\ retried_auth) => retried_auth'

C4_OneAuthRetry == [][C4_Step]_vars

C4_Witness ==
    /\ Ended /\ retried_auth /\ Is401(last) /\ RaisedWith(last)
    /\ attempts <= retries
    /\ \E e \in seen : Is5xx(e) \/ Is408(e)

\* the wrapped operation fails in this step with HTTP status s
OpFailsWith(s) ==
    /\ pc = "invoke"
    /\ calls' = calls + 1
    /\ last' = ClientException(s, "op")

\* the call ends in this step by raising the failure of this attempt, with
\* no sleep and no further attempt
PropagatesNow ==
    /\ pc' = "done"
    /\ result' = [kind |-> "raised", err |-> last']
    /\ sleeps' = sleeps
    /\ attempts' = attempts /\ calls' = calls + 1

\* C5: when the operation fails with 401 on a Connection that lacks the auth
\* URL, the user or the key, the call ends on that attempt with that 401: no
\* sleep, no Authenticator invocation, no further attempt.
C5_Step ==
    (OpFailsWith(401) /\ ~(authurl /\ user /\ key)) =>
        (PropagatesNow /\ auths' = auths)

C5_NoCredentials == [][C5_Step]_vars

C5_Witness ==
    /\ Ended /\ ~key /\ authurl /\ user
    /\ last = ClientException(401, "op") /\ RaisedWith(last)
    /\ attempts <= retries /\ auths = 0 /\ sleeps = <<>>

\* C6: in a put_object call with retries >= 1 whose contents is a stream
\* with no reset capability, put_object is invoked at most once and no second
\* attempt starts; when the invocation failed with a retryable failure, and
\* whenever the call slept, the call ends with the reset failure.
C6_BodyReset ==
    (func = "put_object" /\ contents = "stream" /\ retries >= 1) =>
        /\ calls <= 1 /\ attempts <= 1
        /\ (Ended /\ last.src = "op" /\ PlainRetryable(last)) =>
               RaisedWith(ResetError)
        /\ (Ended /\ sleeps # <<>>) => RaisedWith(ResetError)

C6_Witness ==
    /\ Ended /\ func = "put_object" /\ contents = "stream" /\ retries >= 1
    /\ RaisedWith(ResetError) /\ calls = 1 /\ Is5xx(last) /\ last.src = "op"

\* C7 as stated: a put_object call whose contents is a fixed in-memory value
\* (text or bytes) or empty/None never ends with the reset failure.
C7_AsStated ==
    ( /\ func = "put_object" /\ contents \in {"str", "fixed", "empty"}
      /\ \A e \in seen : e.src = "op" ) =>
        ~RaisedWith(ResetError)

RECURSIVE Pow2(_)
Pow2(n) == IF n = 0 THEN 1 ELSE 2 * Pow2(n - 1)

\* C8 as stated: the k-th sleep of a top-level call lasts
\* min(starting_backoff * 2^(k-1), max_backoff), so no sleep is longer than
\* max_backoff.
C8_AsStated ==
    (\A e \in seen : e.src = "op") =>
        \A k \in 1..Len(sleeps) :
            /\ sleeps[k] = Min(starting_backoff * Pow2(k - 1), max_backoff)
            /\ sleeps[k] <= max_backoff

\* C9 as stated: with retry_on_ratelimit a 498 is retried subject to the
\* attempt limit only, so a call whose latest attempt got a 498 has ended
\* only if that was attempt retries+1, and then with that 498. (Stated for
\* the calls whose reset function is the one the spec intends: no body, a
\* str, an empty value, or a stream.)
C9_AsStated ==
    ( /\ Ended /\ retries >= 0 /\ retry_on_ratelimit
      /\ contents # "fixed"
      /\ last = ClientException(498, "op") ) =>
        (attempts = retries + 1 /\ RaisedWith(last))

C9_Step ==
    /\ (OpFailsWith(498) /\ ~retry_on_ratelimit) => PropagatesNow
    /\ (OpFailsWith(498) /\ retry_on_ratelimit /\ attempts > retries) =>
           PropagatesNow
    /\ (OpFailsWith(498) /\ retry_on_ratelimit /\ attempts <= retries) =>
           (pc' = "sleep" /\ result' = result)
    /\ (pc = "sleep") => (pc' = "reset" /\ sleeps' = Append(sleeps, backoff))
    /\ (pc = "reset" /\ reset_func # "_default_reset") => pc' = "loop"
    /\ (pc = "reset" /\ reset_func = "_default_reset") =>
           (pc' = "done" /\ result' = [kind |-> "raised", err |-> ResetError])
    /\ (pc = "loop" /\ attempts <= retries) =>
           (pc' = "auth" /\ attempts' = attempts + 1)

\* C9, amended: a 498 from the operation ends the call on that attempt (no
\* sleep, no further attempt) when retry_on_ratelimit is false; when it is
\* true and attempts remain, the call sleeps for the backoff and then makes
\* another attempt, unless the body cannot be reset, in which case the call
\* ends with the reset failure after the sleep.
C9_Amended ==
    /\ []((retries >= 0 /\ pc \in {"sleep", "reset", "loop"}) => attempts <= retries)
    /\ [][C9_Step]_vars

C9_Witness ==
    /\ Ended /\ Returned /\ retry_on_ratelimit
    /\ ClientException(498, "op") \in seen
    /\ Len(sleeps) >= 1 /\ calls = Len(sleeps) + 1

\* C10: an operation failure whose status is none of 401, 408, 5xx or an
\* opted-in 498 ends the call on that attempt: no sleep, no further attempt,
\* and the stored URL, token and transport handle stay as they are.
C10_Step ==
    \A s \in OpStatuses :
        ( /\ OpFailsWith(s)
          /\ s \notin {401, 408} /\ s \notin 500..599
          /\ ~(s = 498 /\ retry_on_ratelimit) ) =>
            /\ PropagatesNow
            /\ url' = url /\ token' = token /\ http_conn' = http_conn

C10_OtherStatus == [][C10_Step]_vars

C10_Witness ==
    /\ Ended /\ last = ClientException(404, "op") /\ RaisedWith(last)
    /\ attempts = 2 /\ retries >= 2 /\ Len(sleeps) = 1
    /\ url = url0 /\ token = token0

\* an attempt ends in this step with a failure of the given type, raised by
\* the Authenticator, the connection factory or the operation
AttemptFailsWithType(t) ==
    /\ pc \in {"auth", "connect", "invoke"}
    /\ pc' \in {"sleep", "done"}
    /\ last'.type = t

\* C11 as stated: an SSL failure ends the call on its attempt, and every other
\* transport failure is retried while attempts remain, so a call whose latest
\* attempt met a non-SSL transport failure has ended only if that was attempt
\* retries+1, and then with that failure. (Stated for the calls whose reset
\* function is the one the spec intends.)
C11_AsStated ==
    /\ (Ended /\ last.type = "SSLError") => RaisedWith(last)
    /\ ( /\ Ended /\ retries >= 0 /\ contents # "fixed"
         /\ \A e \in seen : e.src = "op"
         /\ last.type = "socket.error" ) =>
           (attempts = retries + 1 /\ RaisedWith(last))

C11_Step ==
    /\ AttemptFailsWithType("SSLError") =>
           /\ pc' = "done"
           /\ result' = [kind |-> "raised", err |-> last']
           /\ sleeps' = sleeps /\ attempts' = attempts
    /\ ( /\ AttemptFailsWithType("socket.error") /\ last'.src = "op"
         /\ attempts <= retries ) =>
           (pc' = "sleep" /\ result' = result)
    /\ ( /\ AttemptFailsWithType("socket.error") /\ last'.src = "op"
         /\ attempts > retries ) =>
           (pc' = "done" /\ result' = [kind |-> "raised", err |-> last'])
    /\ (pc = "sleep") => (pc' = "reset" /\ sleeps' = Append(sleeps, backoff))
    /\ (pc = "reset" /\ reset_func # "_default_reset") => pc' = "loop"
    /\ (pc = "reset" /\ reset_func = "_default_reset") =>
           (pc' = "done" /\ result' = [kind |-> "raised", err |-> ResetError])
    /\ (pc = "loop" /\ attempts <= retries) =>
           (pc' = "auth" /\ attempts' = attempts + 1)

\* C11, amended: an SSL failure raised on any attempt ends the call on that
\* attempt with that failure, without a sleep, whatever attempts remain; any
\* other transport failure of the operation, while attempts remain, is
\* followed by the backoff sleep and then by another attempt, unless the
\* body cannot be reset, in which case the call ends with the reset failure
\* after the sleep; on the last permitted attempt it ends the call with that
\* failure.
C11_Amended ==
    /\ [](Ended /\ last.type = "SSLError" => RaisedWith(last))
    /\ [][C11_Step]_vars

C11_Witness ==
    /\ Ended /\ last = SSLError("op") /\ RaisedWith(last)
    /\ attempts <= retries /\ SocketError("op") \in seen
    /\ Len(sleeps) = 1 /\ calls = 2

\* C12 as stated: the operation is never invoked on a transport handle on
\* which an earlier attempt met a socket failure or a 408.
C12_AsStated == (pc = "invoke") => ~http_conn.failed

\* C13 as stated: the stored URL and token are both present or both absent.
C13_AsStated == (url = None) <=> (token = None)

\* the call ended straight from an attempt (its success or its failure), not
\* from the reset function or from the loop test
EndedFromAttempt == Ended /\ result.err \notin {NoError, ResetError}

C14_Counter ==
    /\ attempts >= 0
    /\ attempts <= (IF retries >= 0 THEN retries + 1 ELSE 0)
    /\ Ended => attempts = Len(sleeps) + (IF EndedFromAttempt THEN 1 ELSE 0)

C14_Step ==
    /\ (pc \in {"idle", "done"} /\ pc' = "loop") => attempts' = 0
    /\ (attempts' # attempts /\ pc = "loop") => attempts' = attempts + 1

\* C14: every top-level call starts with the attempt counter at 0, whatever
\* the earlier calls on the Connection did, the counter never exceeds
\* retries+1, and when the call ends it equals the number of attempts the
\* call made (one more than its sleeps when it ended from an attempt, as many
\* as its sleeps otherwise).
C14_CallScoped == []C14_Counter /\ [][C14_Step]_vars

C14_Witness ==
    /\ Ended /\ conn0 # NoConn /\ conn0.url = PreUrl /\ url = AuthUrl
    /\ attempts = 2 /\ Len(sleeps) = 1 /\ retries >= 2 /\ Returned

\* C18 as stated: apart from the one re-authentication after an operation's
\* 401, the Authenticator is invoked at most once per top-level call.
C18_AsStated ==
    auths <= 1 + (IF ClientException(401, "op") \in seen THEN 1 ELSE 0)

\* the failure classes _retry retries: 5xx, 408, a non-SSL transport failure,
\* an opted-in 498, and the first 401 on a Connection holding credentials
ClassifiedRetryable(e, firstAuthRetry) ==
    \/ Is5xx(e) \/ Is408(e) \/ IsTransport(e)
    \/ (e.type = "ClientException" /\ e.status = 498 /\ retry_on_ratelimit)
    \/ (Is401(e) /\ firstAuthRetry /\ authurl /\ user /\ key)

C19_Order ==
    /\ pc \in {"auth", "connect", "invoke", "sleep"} => Len(sleeps) = attempts - 1
    /\ pc \in {"reset", "loop"} => Len(sleeps) = attempts
    /\ pc = "sleep" => (last # NoError /\ last # Ok /\ attempts <= retries)

C19_Step ==
    /\ sleeps' # sleeps =>
           \/ pc \in {"idle", "done"} /\ sleeps' = <<>>
           \/ pc = "sleep" /\ sleeps' = Append(sleeps, backoff)
    /\ (pc' = "sleep" /\ pc # "sleep") =>
           /\ pc \in {"auth", "connect", "invoke"}
           /\ ClassifiedRetryable(last', ~retried_auth)
    /\ (pc = "loop" /\ pc' = "auth") =>
           (attempts' = attempts + 1 /\ Len(sleeps) = attempts)

\* C19: within one top-level call no sleep precedes the first attempt, and
\* attempt n+1 starts only after attempt n failed, its failure was classified
\* as retryable with attempts remaining, and exactly one backoff sleep was
\* taken: while attempt n runs the call has slept n-1 times, and between the
\* sleep and the next attempt it has slept n times.
C19_Sequential == []C19_Order /\ [][C19_Step]_vars

C19_Witness ==
    /\ pc = "invoke" /\ attempts = 3 /\ Len(sleeps) = 2 /\ calls = 2
    /\ seen = {ClientException(401, "op"), ClientException(500, "op")}

\* the call in progress was given a response record and did not end with
\* the KeyError of a handler
WithRecord == caller_response_dict.given /\ result.err # KeyError

\* C15 as stated: when a call given a response record has ended after k
\* attempts (each of which reached the operation), the record's list holds
\* exactly k entries and the i-th entry is the dict attempt i made, with what
\* attempt i stored in it.
C15_AsStated ==
    (WithRecord /\ Ended /\ \A e \in seen : e.src = "op") =>
        /\ Len(caller_response_dict.response_dicts) = attempts
        /\ \A i \in 1..Len(caller_response_dict.response_dicts) :
               caller_response_dict.response_dicts[i].attempt = i

\* C16 as stated: when a call given a response record has ended, with every
\* attempt having reached the operation, a flattened status in the record
\* is the one of the call's last attempt, not one of an earlier attempt.
C16_AsStated ==
    ( /\ WithRecord /\ Ended /\ attempts >= 1
      /\ \A e \in seen : e.src = "op"
      /\ caller_response_dict.flat.status # 0 ) =>
        /\ caller_response_dict.flat.attempt = attempts
        /\ caller_response_dict.flat.status = last.status

\* C17 as stated: a call whose body needs no reset and that fails raises the
\* failure of its last attempt, as it was produced.
C17_AsStated ==
    (reset_func = "None" /\ Ended /\ result.kind = "raised") => result.err = last

RECURSIVE Concat(_)
Concat(ps) == IF ps = <<>> THEN <<>> ELSE Head(ps) \o Concat(Tail(ps))

\* C20: when a full listing returns, the last page got is empty and is the
\* only empty one, the requests issued are one more than the non-empty pages,
\* and the list returned is the concatenation of the pages in order: it has
\* as many entries as the pages together and holds, once and in the server's
\* order, every entry from the first one returned to the last one the server
\* holds.
C20_Pagination ==
    /\ lpc \in {"while", "done"} =>
           /\ requests = Len(pages)
           /\ rv = Concat(pages)
           /\ \A i \in 1..(Len(pages) - 1) : pages[i] # <<>>
    /\ lpc = "done" =>
           /\ pages[Len(pages)] = <<>>
           /\ requests = Cardinality({i \in 1..Len(pages) : pages[i] # <<>>}) + 1
           /\ \A i \in 1..Len(rv) : rv[i].val = rv[1].val + i - 1
           /\ Len(rv) = (IF rv = <<>> THEN 0 ELSE items - rv[1].val + 1)

C20_Witness ==
    /\ lpc = "done" /\ requests = 4 /\ Len(rv) = 5
    /\ [i \in 1..Len(pages) |-> Len(pages[i])] = <<2, 2, 1, 0>>
    /\ lfunc = "get_container" /\ delimiter /\ 4 \in subdirs

\* C29 as stated: the reset step precedes the backoff sleep, so a call that
\* ends with the reset failure has not slept. (Stated for the bodies that
\* have no reset capability by design, with every attempt reaching the
\* operation.)
C29_AsStated ==
    ( /\ RaisedWith(ResetError) /\ contents = "stream"
      /\ \A e \in seen : e.src = "op" ) =>
        sleeps = <<>>

\* the latest attempt failed with a 5xx and is being retried
Retrying5xx ==
    /\ Is5xx(last)
    /\ pc \in {"sleep", "reset", "loop", "auth", "connect"}

C30_Step ==
    /\ (AttemptFailsWithType("ClientException") /\ Is5xx(last') /\ pc' = "sleep") =>
           (url' = url /\ token' = token /\ http_conn' = http_conn)
    /\ (Retrying5xx /\ last.src = "op") =>
           /\ url' = url /\ token' = token /\ auths' = auths
           /\ http_conn' = http_conn \/ pc' = "done"
           /\ pc = "auth" => pc' = "connect"
           /\ pc = "connect" => pc' = "invoke"

\* C30: an attempt that fails with a 5xx and is retried leaves the stored
\* URL, token and transport handle as they were; when the 5xx came from the
\* operation all three are present, and through the sleep, the reset and the
\* next attempt up to the invocation they stay the same: the Authenticator is
\* not invoked and no handle is made.
C30_ServerErrorFrame ==
    /\ []((Retrying5xx /\ last.src = "op") =>
             (url # None /\ token # None /\ http_conn # NoConn))
    /\ [][C30_Step]_vars

C30_Witness ==
    /\ pc = "invoke" /\ last = ClientException(500, "op")
    /\ attempts = 2 /\ calls = 1 /\ auths = 1
    /\ url = AuthUrl /\ http_conn = NewHandle(AuthUrl)
\* C21: a listing request answered 204 is not a failure and gives the empty
\* list whatever its body holds, and the full listing it belongs to issues no
\* further request: its next step is to return what it has gathered.
C21_Step ==
    (resp.status = 204 /\ lpc = "while") =>
        /\ lpc' = "done" /\ requests' = requests /\ rv' = rv

C21_NoContent ==
    /\ [](resp.status = 204 =>
             /\ lpc \in {"while", "done"}
             /\ listing = <<>>
             /\ pages[Len(pages)] = <<>>
             /\ rv = Concat(SubSeq(pages, 1, Len(pages) - 1)))
    /\ [][C21_Step]_vars

C21_Witness ==
    /\ lpc = "done" /\ resp.status = 204 /\ resp.body = StaleBody
    /\ requests = 3 /\ Len(rv) = 4

CachedPair ==
    /\ os_options.object_storage_url # None /\ os_options.auth_token # None

\* C22 as stated: under auth protocol 1 and 2 alike, a Connection whose
\* configuration supplies a cached storage URL and token sends no request to
\* the authentication service, and what get_auth returns is that pair.
C22_AsStated ==
    (CachedPair /\ auth_version \in {1, 2}) =>
        /\ auth_requests = 0
        /\ (auths > 0 /\ pc \in {"connect", "invoke"} /\ attempts = 1) =>
               /\ url = os_options.object_storage_url
               /\ token = os_options.auth_token

\* C23: on a Connection built without preauthurl whose os_options force a
\* storage URL, every get_auth that succeeds gives the forced URL, with the
\* token the authentication service issued whenever it was asked, and every
\* invocation of the operation is made against the forced URL with a handle
\* opened on it.
C23_Step ==
    (os_options.object_storage_url # None /\ auths' = auths + 1
       /\ pc' = "connect") =>
        /\ url' = os_options.object_storage_url
        /\ (auth_requests' = auth_requests + 1 => token' = AuthToken)
        /\ (auth_requests' = auth_requests => token' = os_options.auth_token)

C23_Override ==
    /\ []((os_options.object_storage_url # None /\ pc = "invoke") =>
             /\ url = os_options.object_storage_url
             /\ http_conn.url = os_options.object_storage_url)
    /\ [][C23_Step]_vars

C23_Witness ==
    /\ pc = "invoke" /\ attempts = 2 /\ retried_auth /\ auths = 2
    /\ auth_version = 1 /\ os_options.auth_token = None
    /\ url = ForcedUrl /\ token = AuthToken
    /\ http_conn = NewHandle(ForcedUrl)

\* C24: the bytes a LengthWrapper has returned never exceed its declared
\* length, its remaining count is the declared length less the bytes returned
\* and is never negative, and once the declared length has been returned
\* every read returns the empty chunk and takes nothing from the wrapped
\* object.
C24_Step ==
    (returned = length /\ reads' = reads + 1) =>
        /\ chunk' = 0 /\ returned' = returned /\ readable' = readable

C24_Bound ==
    /\ [](/\ returned <= length
          /\ remaining = length - returned
          /\ remaining >= 0
          /\ chunk <= length)
    /\ [][C24_Step]_vars

C24_Witness ==
    /\ length = 2 /\ returned = 2 /\ remaining = 0
    /\ reads = 3 /\ chunk = 0 /\ readable = 1

\* C25: generate_temp_url called with negative seconds raises ValueError,
\* with absolute set or not, and gives no URL.
C25_Negative ==
    (temp_url # NotCalled /\ args.seconds < 0) =>
        temp_url = [kind |-> "ValueError"]

C25_Witness ==
    /\ args.absolute /\ args.seconds = -1
    /\ temp_url = [kind |-> "ValueError"]

\* C26 as stated: for seconds not negative the expiration is the clock plus
\* seconds (relative mode) or seconds (absolute mode), and the signature is
\* the HMAC-SHA1 under the key of method, expiration and path.
C26_AsStated ==
    (temp_url # NotCalled /\ args.seconds >= 0) =>
        /\ temp_url.kind = "url"
        /\ temp_url.path = args.path
        /\ args.absolute => temp_url.temp_url_expires = args.seconds
        /\ ~args.absolute =>
               2 * temp_url.temp_url_expires = now + 2 * args.seconds
        /\ temp_url.temp_url_sig =
               Hmac(args.key, <<args.method, Str(temp_url.temp_url_expires),
                                args.path>>)

\* the method in capitals
InCapitals(m) == IF m \in {"GET", "get"} THEN "GET" ELSE "PUT"

\* C26 amended: the expiration is the whole seconds of clock plus seconds
\* (relative mode) or seconds (absolute mode), the signature is the HMAC-SHA1
\* under the key of the upper-cased method, the decimal expiration and the
\* path, the result is made of the path, that signature and that expiration,
\* and the call leaves the Connection as it was.
C26_Amended ==
    /\ []((temp_url # NotCalled /\ args.seconds >= 0) =>
             LET e == IF args.absolute THEN args.seconds
                      ELSE (now + 2 * args.seconds) \div 2
             IN  temp_url =
                   [kind |-> "url", path |-> args.path,
                    temp_url_sig |->
                        Hmac(args.key,
                             <<InCapitals(args.method), Str(e), args.path>>),
                    temp_url_expires |-> e])
    /\ [][temp_url' # temp_url => UNCHANGED <<retry_vars, args, now>>]_vars

C26_Witness ==
    /\ temp_url.kind = "url" /\ args.method = "get" /\ ~args.absolute
    /\ args.seconds = 1 /\ now = 3 /\ temp_url.temp_url_expires = 2
    /\ temp_url.temp_url_sig.body[1] = "GET"

\* C27: two calls on separate Connection instances leave each other's
\* instance alone: a step of one thread changes nothing of the other
\* thread's attempts, URL, token and handle, each call makes at most
\* retries + 1 attempts, its instance counting them, and hands a URL and a
\* token to the operation. On one shared instance both guarantees can be
\* lost (C27_Witness).
C27_Step ==
    ~shared =>
        \A t \in Threads : threads'[t] = threads[t] => conns'[t] = conns[t]

C27_Separate ==
    /\ [](~shared =>
             \A t \in Threads :
                /\ threads[t].made <= conns[t].retries + 1
                /\ threads[t].pc \notin {"idle", "loop"} =>
                       conns[t].attempts = threads[t].made
                /\ ~threads[t].blind)
    /\ [][C27_Step]_vars

\* on a shared instance: thread 1 has made more than retries + 1 attempts
\* and thread 2 has invoked the operation with the URL and token absent
C27_Witness ==
    /\ shared
    /\ threads[1].made > conns[1].retries + 1
    /\ threads[2].blind

\* C31: whenever the operation is invoked the handle held was opened on the
\* Connection's current storage URL; a handle is opened only when none is
\* held, on the current URL, and every get_auth that succeeds drops the
\* handle held.
C31_Step ==
    /\ (http_conn'.url # http_conn.url /\ http_conn' # NoConn) =>
           (http_conn = NoConn /\ http_conn' = NewHandle(url) /\ url' = url)
    /\ (auths' = auths + 1 /\ pc' = "connect") => http_conn' = NoConn

C31_HandleOnCurrentUrl ==
    /\ [](pc = "invoke" =>
             (url # None /\ http_conn # NoConn /\ http_conn.url = url))
    /\ [][C31_Step]_vars

C31_Witness ==
    /\ pc = "invoke" /\ url0 = PreUrl /\ conn0 = NewHandle(PreUrl)
    /\ ClientException(401, "op") \in seen
    /\ url = AuthUrl /\ http_conn = NewHandle(AuthUrl)

\* C32: in a Connection.put_object of a stream with tell and seek, on a
\* Connection with retries >= 1, orig_pos is the position the stream had when
\* the call began, the reset before each further attempt puts the stream
\* back there, and every attempt finds the stream at that position.
C32_Step ==
    /\ (pc \in {"idle", "done"} /\ pc' = "loop" /\ reset_func' = "seek") =>
           (orig_pos' = pos /\ pos' = pos)
    /\ (pc = "reset" /\ reset_func = "seek") =>
           (pos' = orig_pos /\ orig_pos' = orig_pos /\ pc' = "loop")
    /\ (pc = "sleep" /\ reset_func = "seek") => pc' = "reset"

C32_SamePosition ==
    /\ []((func = "put_object" /\ contents = "seekable" /\ retries >= 1) =>
             /\ reset_func = "seek"
             /\ pc \in {"loop", "auth", "connect", "invoke"} => pos = orig_pos)
    /\ [][C32_Step]_vars

C32_Witness ==
    /\ func = "put_object" /\ contents = "seekable" /\ retries = 2
    /\ pc = "invoke" /\ attempts = 3 /\ resets = 2
    /\ stream_len = 3 /\ orig_pos = 1 /\ pos = 1

\* C33: in a full listing the first request carries the caller's marker and
\* every follow-up request carries as marker the name of the last entry of
\* the page before it - with a delimiter, that entry's name or, when it has
\* none, its subdir - while limit, delimiter, prefix, end_marker and path are
\* those of the call in every request.
C33_FollowUp ==
    \A i \in 1..Len(sent) :
        /\ sent[i].limit = limit
        /\ sent[i].delimiter = delimiter
        /\ sent[i].filters = filters
        /\ i = 1 => sent[i].marker = marker_arg
        /\ i > 1 =>
             LET last_entry == pages[i - 1][Len(pages[i - 1])]
             IN  /\ last_entry.key = "name" => sent[i].marker = last_entry.val
                 /\ last_entry.key = "subdir" =>
                        (delimiter /\ sent[i].marker = last_entry.val)

C33_Witness ==
    /\ lpc = "done" /\ lfunc = "get_container" /\ delimiter
    /\ filters = {"prefix", "end_marker", "path"}
    /\ Len(sent) = 3 /\ limit = 2 /\ marker_arg = 1
    /\ sent[2].marker = 3 /\ 3 \in subdirs
    /\ sent[3].marker = 5 /\ 5 \notin subdirs

\* C34: in a full listing made through Connection.get_account or
\* Connection.get_container, nothing of a failed attempt is kept: between
\* attempts and when the function is invoked again the marker is the one the
\* caller gave and no entry is held, the first request of every attempt
\* carries the caller's marker, and the listing returned holds, once each and
\* in order, the entries after the caller's marker.
C34_Restart ==
    /\ (\/ pc \in {"sleep", "reset", "loop", "auth", "connect"}
        \/ pc = "invoke" /\ lpc = "idle") =>
           (marker = marker_arg /\ rv = <<>> /\ listing = <<>> /\ sent = <<>>)
    /\ sent # <<>> => sent[1].marker = marker_arg
    /\ (pc = "done" /\ result = [kind |-> "returned", err |-> Ok]) =>
           /\ Len(rv) = Max(0, items - marker_arg)
           /\ \A i \in 1..Len(rv) : rv[i].val = marker_arg + i

C34_Witness ==
    /\ pc = "done" /\ result = [kind |-> "returned", err |-> Ok]
    /\ attempts = 3 /\ requests = 8 /\ Len(sent) = 3
    /\ marker_arg = 1 /\ items = 5 /\ limit = 2 /\ Len(rv) = 4

\* the configuration names no tenant but gives a tenant id
TenantIdOnly == os_options.tenant_id /\ ~os_options.tenant_name

\* C35 as stated: under protocol 2, a get_auth of a Connection configured
\* with a tenant id and no tenant name does not fail before it has asked the
\* identity service.
C35_AsStated ==
    (auth_version = 2 /\ TenantIdOnly /\ ~CachedPair /\ auths > 0) =>
        ~(last.src = "auth" /\ auth_requests = 0)

\* C36 as stated: once close() has been called on a Connection, the
\* Connection holds no transport handle, and the call that follows opens a
\* new one before it invokes its operation.
C36_AsStated ==
    pc = "closed" => http_conn = NoConn

\* the call made one attempt, whose authentication failed
FirstAuthFailed ==
    /\ Ended /\ attempts = 1 /\ auths = 1 /\ calls = 0 /\ last.src = "auth"

\* a call without a response record whose authentication fails on the first
\* and only attempt raises that failure
C37_WithoutRecord ==
    (~caller_response_dict.given /\ retries = 0 /\ FirstAuthFailed) =>
        result = [kind |-> "raised", err |-> last]

\* C37 as stated: a call given a response record ends as the call without
\* one does; when authentication fails on the first and only attempt, it
\* raises that failure.
C37_AsStated ==
    (caller_response_dict.given /\ retries = 0 /\ FirstAuthFailed) =>
        result = [kind |-> "raised", err |-> last]

\* C38 as stated, for retries = 0, where every call is one attempt: on a
\* Connection with all the credentials, a call whose stored token the server
\* answered with 401 does not leave that token stored for the next call
\* (which would meet the same answer, and so would every call after it).
C38_AsStated ==
    ( /\ authurl /\ user /\ key /\ retries = 0
      /\ Ended /\ token0 # None /\ auths = 0
      /\ RaisedWith(ClientException(401, "op")) ) =>
        token # token0

\* C39 as stated: after an account, container or object operation the dict
\* the caller passed as headers has the keys it had before the call.
C39_AsStated ==
    outcome.kind # "none" => headers = headers0

====
